---- MODULE Spec2Model ----
(***************************************************************************)
(* A model of the synthetic data generator of islamic_finance_db.py: the   *)
(* run of main() as a state machine over the relational store.             *)
(*                                                                         *)
(* Dates are day numbers counted from START_DATE (2020-01-01 is day 0).    *)
(* Money is fixed point: whole currency units where the code holds an int, *)
(* thousandths of a unit ("mills") where it holds an unrounded float, and  *)
(* hundredths ("cents") where it stores round(x, 2).  Rates are in units   *)
(* of 1/10000, which is what round(x, 4) keeps.                            *)
(***************************************************************************)
EXTENDS Integers, Sequences, FiniteSets, TLC

VARIABLES
    now,      \* what datetime.now().date() returns during this run
    cfg,      \* the volume parameters main() passes and the sampled input ranges
    pc,       \* the stage of main() that runs next
    db,       \* the persisted store: one sequence of rows per table
    rows,     \* the local list the running stage is filling
    loc,      \* the other locals of the running stage
    tape,     \* the values the seeded random sources have produced, in order
    rng_pos,  \* how many of them this run has consumed
    run,      \* the number of the run of main() in progress
    prev      \* the summary of the store as the previous run left it

vars == <<now, cfg, pc, db, rows, loc, tape, rng_pos, run, prev>>

----------------------------------------------------------------------------
(* Arithmetic *)

Min(a, b) == IF a <= b THEN a ELSE b
Max(a, b) == IF a >= b THEN a ELSE b

\* <<q, r>> with a * b = q * c + r and 0 <= r < c, for a, b >= 0 and c > 0,
\* computed bit by bit so that no intermediate value leaves 32 bits.
RECURSIVE MulDivQR(_, _, _)
MulDivQR(a, b, c) ==
    IF b = 0 THEN <<0, 0>>
    ELSE LET add == IF b % 2 = 1 THEN a ELSE 0
             Double(h) ==
                 LET tr == 2 * h[2] + (add % c)
                 IN  <<2 * h[1] + (add \div c) + (tr \div c), tr % c>>
         IN  \* h is bound to the value for b \div 2, which is computed once
             CHOOSE qr \in {Double(h) : h \in {MulDivQR(a, b \div 2, c)}} : TRUE

\* a * b / c for c > 0, cut to the fixed point unit (toward zero): what a float
\* product and quotient leave at that precision.
MulDiv(a, b, c) ==
    LET Signed(x, y, z) ==
            IF (x < 0) = (y < 0)
            THEN MulDivQR(IF x < 0 THEN -x ELSE x, IF y < 0 THEN -y ELSE y, z)[1]
            ELSE -(MulDivQR(IF x < 0 THEN -x ELSE x, IF y < 0 THEN -y ELSE y, z)[1])
    IN  \* x, y, z are bound to the values of the operands, computed once
        CHOOSE q \in {Signed(x, y, z) : x \in {a}, y \in {b}, z \in {c}} : TRUE

\* int(x / d) for a day count x: Python's int() truncates toward zero.
IntDiv(x, d) == IF x >= 0 THEN x \div d ELSE -((-x) \div d)

\* round(x, 2) of an amount held in mills, as cents.
Round2(mills) == (mills + 5) \div 10

RECURSIVE SumSeq(_)
SumSeq(s) == IF s = <<>> THEN 0 ELSE s[1] + SumSeq(Tail(s))

----------------------------------------------------------------------------
(* Configuration *)

START_DATE == 0
END_DATE == 1765

\* departments: each department with one of its positions.
Departments ==
    { [department |-> "Sharia Board",     position |-> "Compliance Officer"],
      [department |-> "Finance",          position |-> "Accountant"],
      [department |-> "Risk Management",  position |-> "Credit Analyst"],
      [department |-> "Operations",       position |-> "Loan Officer"],
      [department |-> "Operations",       position |-> "Investment Officer"],
      [department |-> "Customer Service", position |-> "Support Specialist"],
      [department |-> "IT",               position |-> "Data Analyst"],
      [department |-> "HR",               position |-> "Recruiter"] }

RiskProfiles == {"Conservative", "Moderate", "Aggressive"}
MaturityYears == {2, 3, 5, 7, 10}
MinimumInvestments == {1000, 5000, 10000}
LoanTerms == {12, 24, 36, 48, 60}
PaymentStatuses == {"On Time", "Late", "Missed"}

Tables ==
    { "employees", "investors", "borrowers", "sukuk_issuances",
      "sukuk_purchases", "business_loans", "loan_payments",
      "profit_distributions" }

\* The schema right after CREATE TABLE: every table exists and is empty.
EmptyStore == [t \in Tables |-> <<>>]

\* The order in which main() calls the stages.
NextStage(stage) ==
    CASE stage = "create_database"               -> "generate_employees"
      [] stage = "generate_employees"            -> "generate_investors"
      [] stage = "generate_investors"            -> "generate_borrowers"
      [] stage = "generate_borrowers"            -> "generate_sukuk_issuances"
      [] stage = "generate_sukuk_issuances"      -> "generate_sukuk_purchases"
      [] stage = "generate_sukuk_purchases"      -> "generate_business_loans"
      [] stage = "generate_business_loans"       -> "generate_loan_payments"
      [] stage = "generate_loan_payments"        -> "generate_profit_distributions"
      [] stage = "generate_profit_distributions" -> "done"

NoLocals == [at |-> "start"]

----------------------------------------------------------------------------
(* The seeded random sources *)

\* random.seed(42), np.random.seed(42), Faker.seed(42): the k-th value a run
\* draws is the k-th value of the stream the seed fixes.  A run that finds a
\* value of the same call on the tape, still within the range asked for, gets
\* that value; otherwise the value is any of the range.
Drawn(kind, S) ==
    IF /\ rng_pos < Len(tape)
       /\ tape[rng_pos + 1][1] = kind
       /\ tape[rng_pos + 1][2] \in S
    THEN {tape[rng_pos + 1][2]}
    ELSE S

Consume(kind, d) ==
    /\ tape' = IF rng_pos < Len(tape)
               THEN [tape EXCEPT ![rng_pos + 1] = <<kind, d>>]
               ELSE Append(tape, <<kind, d>>)
    /\ rng_pos' = rng_pos + 1

----------------------------------------------------------------------------
(* Stages *)

\* df.to_sql(table, conn, if_exists='append'): the rows are appended; the
\* AUTOINCREMENT key of a row is its position in the table.
ToSql(store, table, df) == [store EXCEPT ![table] = @ \o df]

\* Mutant: the tables created only where missing, none dropped.
create_database_keeping_tables ==
    /\ pc = "create_database"
    /\ db' = db
    /\ rows' = <<>>
    /\ loc' = NoLocals
    /\ pc' = NextStage(pc)
    /\ UNCHANGED <<now, cfg, tape, rng_pos, run, prev>>

\* Drops the eight tables and creates them again, empty.
create_database ==
    /\ pc = "create_database"
    /\ db' = [t \in Tables |-> <<>>]
    /\ rows' = <<>>
    /\ loc' = NoLocals
    /\ pc' = NextStage(pc)
    /\ UNCHANGED <<now, cfg, tape, rng_pos, run, prev>>

\* One pass of a generator's loop that needs no row of another table: the row
\* is appended to the local list, and after the last pass the list is written.
EntityStep(table, n, row) ==
    LET out == Append(rows, row)
    IN  IF Len(out) >= n
        THEN /\ db' = ToSql(db, table, out)
             /\ rows' = <<>>
             /\ pc' = NextStage(pc)
        ELSE /\ rows' = out
             /\ UNCHANGED <<db, pc>>

generate_employees ==
    /\ pc = "generate_employees"
    /\ \E d \in Drawn("employee", cfg.employee_kinds) :
          /\ EntityStep("employees", cfg.num_employees, d)
          /\ Consume("employee", d)
    /\ UNCHANGED <<now, cfg, loc, run, prev>>

generate_investors ==
    /\ pc = "generate_investors"
    /\ \E d \in Drawn("investor", cfg.risk_profiles) :
          /\ EntityStep("investors", cfg.num_investors,
                        [risk_profile |-> d, total_invested |-> 0])
          /\ Consume("investor", d)
    /\ UNCHANGED <<now, cfg, loc, run, prev>>

generate_borrowers ==
    /\ pc = "generate_borrowers"
    /\ \E d \in Drawn("borrower", cfg.credit_scores) :
          /\ EntityStep("borrowers", cfg.num_borrowers, [credit_score |-> d])
          /\ Consume("borrower", d)
    /\ UNCHANGED <<now, cfg, loc, run, prev>>

\* SELECT employee_id FROM employees WHERE department='Finance'
FinanceIds(store) ==
    {i \in 1..Len(store.employees) : store.employees[i].department = "Finance"}

\* ... WHERE department IN ('Operations', 'Customer Service')
ProcessorIds(store) ==
    {i \in 1..Len(store.employees) :
        store.employees[i].department \in {"Operations", "Customer Service"}}

\* Mutant: the pattern '%Officer%', which also takes the Compliance and
\* Investment Officers.
ApproverIdsAnyOfficer(store) ==
    {i \in 1..Len(store.employees) :
        \/ store.employees[i].department = "Risk Management"
        \/ store.employees[i].position
              \in {"Loan Officer", "Compliance Officer", "Investment Officer"}}

\* ... WHERE department='Risk Management' OR position LIKE '%Loan Officer%'
ApproverIds(store) ==
    {i \in 1..Len(store.employees) :
        \/ store.employees[i].department = "Risk Management"
        \/ store.employees[i].position = "Loan Officer"}

\* Mutant: the error swallowed, the run going on with the next stage.
AbortSkipsStage ==
    /\ pc' = NextStage(pc)
    /\ rows' = <<>>
    /\ UNCHANGED <<db, tape, rng_pos>>

\* The stage raised: main() does not catch, so the run ends here and the
\* local list is lost with it.
Abort ==
    /\ pc' = "failed"
    /\ rows' = <<>>
    /\ UNCHANGED <<db, tape, rng_pos>>

SukukDraws ==
    [ issue_date : {d \in cfg.issue_days : START_DATE <= d /\ d <= now},
      maturity_years : cfg.maturity_years,
      jitter : cfg.return_jitters,
      minimum_investment : cfg.min_investments,
      issuer : FinanceIds(db) ]

SukukRow(d) ==
    LET maturity_date == d.issue_date + d.maturity_years * 365
    IN  [ issue_date |-> d.issue_date,
          maturity_date |-> maturity_date,
          expected_return_rate |-> 500 + d.maturity_years * 50 + d.jitter,
          minimum_investment |-> d.minimum_investment,
          status |-> IF maturity_date > now THEN "Active" ELSE "Matured",
          issued_by_employee_id |-> d.issuer ]

generate_sukuk_issuances ==
    /\ pc = "generate_sukuk_issuances"
    /\ IF FinanceIds(db) = {}
       THEN Abort
       ELSE \E d \in Drawn("sukuk", SukukDraws) :
               /\ EntityStep("sukuk_issuances", cfg.num_sukuk, SukukRow(d))
               /\ Consume("sukuk", d)
    /\ UNCHANGED <<now, cfg, loc, run, prev>>

\* The values of one pass of the purchase loop: the sampled instrument, a
\* purchase date between its issue date and min(now, issue date + 365), an
\* amount between the minimum investment and fifty times it.
PurchaseDraws ==
    { d \in [ sukuk_id : 1..Len(db.sukuk_issuances),
              offset : cfg.purchase_offsets,
              multiple : cfg.amount_multiples,
              investor_id : 1..Len(db.investors),
              processor : ProcessorIds(db) ] :
        LET issue_date == db.sukuk_issuances[d.sukuk_id].issue_date
        IN  /\ d.offset >= 0
            /\ issue_date + d.offset <= Min(now, issue_date + 365)
            /\ 1 <= d.multiple /\ d.multiple <= 50 }

\* Mutant: the offset counted back from the issue date.
PurchaseRowBeforeIssue(d) ==
    LET sukuk == db.sukuk_issuances[d.sukuk_id]
    IN  [ investor_id |-> d.investor_id,
          sukuk_id |-> d.sukuk_id,
          purchase_date |-> sukuk.issue_date - d.offset,
          amount |-> sukuk.minimum_investment * d.multiple,
          processed_by_employee_id |-> d.processor ]

PurchaseRow(d) ==
    LET sukuk == db.sukuk_issuances[d.sukuk_id]
    IN  [ investor_id |-> d.investor_id,
          sukuk_id |-> d.sukuk_id,
          purchase_date |-> sukuk.issue_date + d.offset,
          amount |-> sukuk.minimum_investment * d.multiple,
          processed_by_employee_id |-> d.processor ]

\* Mutant: the subquery not correlated with the investor, so that every
\* investor gets the sum of all purchases.
UpdateTotalInvestedUncorrelated(store) ==
    LET p == store.sukuk_purchases
        total == SumSeq([i \in 1..Len(p) |-> p[i].amount])
    IN  [store EXCEPT !.investors =
            [inv \in 1..Len(@) |-> [@[inv] EXCEPT !.total_invested = total]]]

\* UPDATE investors SET total_invested = (SELECT COALESCE(SUM(amount), 0) ...)
UpdateTotalInvested(store) ==
    LET p == store.sukuk_purchases
        Total(inv) ==
            SumSeq([i \in 1..Len(p) |->
                      IF p[i].investor_id = inv THEN p[i].amount ELSE 0])
    IN  [store EXCEPT !.investors =
            [inv \in 1..Len(@) |-> [@[inv] EXCEPT !.total_invested = Total(inv)]]]

generate_sukuk_purchases ==
    /\ pc = "generate_sukuk_purchases"
    /\ IF ProcessorIds(db) = {}
       THEN Abort
       ELSE \E d \in Drawn("purchase", PurchaseDraws) :
               LET out == Append(rows, PurchaseRow(d))
               IN  /\ IF Len(out) >= cfg.num_purchases
                      THEN /\ db' = UpdateTotalInvested(
                                        ToSql(db, "sukuk_purchases", out))
                           /\ rows' = <<>>
                           /\ pc' = NextStage(pc)
                      ELSE /\ rows' = out
                           /\ UNCHANGED <<db, pc>>
                   /\ Consume("purchase", d)
    /\ UNCHANGED <<now, cfg, loc, run, prev>>

\* Mutant: the tests in the wrong order, so that the top tier is never taken.
LoanAmountRangeTopTierLost(credit_score) ==
    IF credit_score >= 650 THEN <<50000, 250000>>
    ELSE IF credit_score >= 750 THEN <<100000, 500000>>
    ELSE <<10000, 100000>>

\* random.randint(lo, hi) by credit score: <<lo, hi>>.
LoanAmountRange(credit_score) ==
    IF credit_score >= 750 THEN <<100000, 500000>>
    ELSE IF credit_score >= 650 THEN <<50000, 250000>>
    ELSE <<10000, 100000>>

\* base_profit_rate adjusted by credit score, before the jitter.
BaseProfitRate(credit_score) ==
    IF credit_score >= 750 THEN 1000 - 200
    ELSE IF credit_score >= 650 THEN 1000
    ELSE 1000 + 300

\* Mutant: the fraction taken as the share recovered, not the share left.
DefaultedBalanceRecovered(loan_amount, frac) == loan_amount * 10 * (100 - frac)

\* loan_amount * random.uniform(0.3, 0.9), the fraction given in percent.
DefaultedBalance(loan_amount, frac) == loan_amount * 10 * frac

\* Mutant: the loan paid down in full, not by 70%, over its term.
ActiveBalancePaidInFull(loan_amount, days_elapsed, total_days) ==
    IF total_days > 0
    THEN loan_amount * 1000
           - MulDiv(loan_amount * 1000, Min(days_elapsed, total_days), total_days)
    ELSE loan_amount * 1000

\* Mutant: the loan paid down by 80% over its term.
ActiveBalancePaidDown80(loan_amount, days_elapsed, total_days) ==
    IF total_days > 0
    THEN loan_amount * 1000
           - MulDiv(loan_amount * 800, Min(days_elapsed, total_days), total_days)
    ELSE loan_amount * 1000

\* Mutant: a loan without a term taken as settled.
ActiveBalanceZeroTermSettled(loan_amount, days_elapsed, total_days) ==
    IF total_days > 0
    THEN loan_amount * 1000
           - MulDiv(loan_amount * 700, Min(days_elapsed, total_days), total_days)
    ELSE 0

\* loan_amount * (1 - progress * 0.7), progress = min(elapsed / total, 1.0);
\* the whole amount when total_days is not positive.
ActiveBalance(loan_amount, days_elapsed, total_days) ==
    IF total_days > 0
    THEN loan_amount * 1000
           - MulDiv(loan_amount * 700, Min(days_elapsed, total_days), total_days)
    ELSE loan_amount * 1000

\* Mutant: a loan that matures today counted as Paid Off.
LoanStatusDueToday(default, maturity_date, today) ==
    IF default THEN "Defaulted"
    ELSE IF maturity_date <= today THEN "Paid Off"
    ELSE "Active"

\* The if / elif / else that decides loan_status.
LoanStatus(default, maturity_date, today) ==
    IF default THEN "Defaulted"
    ELSE IF maturity_date < today THEN "Paid Off"
    ELSE "Active"

\* outstanding_balance before rounding, in mills.
OutstandingBalance(status, loan_amount, frac, disbursement_date, maturity_date, today) ==
    CASE status = "Defaulted" -> DefaultedBalance(loan_amount, frac)
      [] status = "Paid Off"  -> 0
      [] OTHER -> ActiveBalance(loan_amount, today - disbursement_date,
                                maturity_date - disbursement_date)

\* The values of one pass of the loan loop.  frac is drawn only for a loan the
\* default draw hits (0 stands for "not drawn").
LoanDraws ==
    { d \in [ borrower_id : 1..Len(db.borrowers),
              loan_amount : cfg.loan_amounts,
              disbursement_date : cfg.disbursement_days,
              term : cfg.loan_terms,
              jitter : cfg.rate_jitters,
              default : cfg.default_draws,
              frac : cfg.default_fracs \cup {0},
              approver : ApproverIds(db) ] :
        LET range == LoanAmountRange(db.borrowers[d.borrower_id].credit_score)
        IN  /\ range[1] <= d.loan_amount /\ d.loan_amount <= range[2]
            /\ START_DATE <= d.disbursement_date
            /\ d.disbursement_date <= END_DATE
            /\ d.term \in LoanTerms
            /\ -100 <= d.jitter /\ d.jitter <= 100
            /\ IF d.default THEN 30 <= d.frac /\ d.frac <= 90 ELSE d.frac = 0 }

LoanRow(d) ==
    LET credit_score == db.borrowers[d.borrower_id].credit_score
        maturity_date == d.disbursement_date + d.term * 30
        loan_status == LoanStatus(d.default, maturity_date, now)
    IN  [ borrower_id |-> d.borrower_id,
          loan_amount |-> d.loan_amount,
          disbursement_date |-> d.disbursement_date,
          maturity_date |-> maturity_date,
          profit_rate |-> BaseProfitRate(credit_score) + d.jitter,
          loan_status |-> loan_status,
          approved_by_employee_id |-> d.approver,
          outstanding_balance |->
              Round2(OutstandingBalance(loan_status, d.loan_amount, d.frac,
                                        d.disbursement_date, maturity_date, now)) ]

generate_business_loans ==
    /\ pc = "generate_business_loans"
    /\ IF ApproverIds(db) = {}
       THEN Abort
       ELSE \E d \in Drawn("loan", LoanDraws) :
               /\ EntityStep("business_loans", cfg.num_loans, LoanRow(d))
               /\ Consume("loan", d)
    /\ UNCHANGED <<now, cfg, loc, run, prev>>

----------------------------------------------------------------------------
(* generate_loan_payments *)

\* Mutant: the term counted in months of 31 days.
MonthsOf31Days(loan) ==
    Max(1, IntDiv(loan.maturity_date - loan.disbursement_date, 31))

\* months = max(1, int((maturity_date - disbursement_date).days / 30))
Months(loan) == Max(1, IntDiv(loan.maturity_date - loan.disbursement_date, 30))

\* Mutant: the installment spreads the principal alone, without the profit.
MonthlyPaymentOfPrincipal(loan) ==
    (loan.loan_amount * 1000)
        \div Max(1, IntDiv(loan.maturity_date - loan.disbursement_date, 30))

\* total_to_pay / months, in mills: the principal plus
\* loan_amount * profit_rate * (months / 12), spread evenly.
MonthlyPayment(loan) ==
    LET months == Months(loan)
        total_profit == MulDiv(loan.loan_amount, loan.profit_rate * months, 120)
    IN  (loan.loan_amount * 1000 + total_profit) \div months

\* Mutant: the bounds taken one too wide on each side.
DefaultedCountRangeWide(months) ==
    <<(months * 3) \div 10 - 1, (months * 7) \div 10 + 1>>

\* The bounds of random.randint(int(months * 0.3), int(months * 0.7)).
DefaultedCountRange(months) == <<(months * 3) \div 10, (months * 7) \div 10>>

\* Mutant: for an Active loan, the period under way counted as elapsed.
NumLoanPaymentsPeriodUnderWay(loan) ==
    LET months == Max(1, IntDiv(loan.maturity_date - loan.disbursement_date, 30))
    IN  CASE loan.loan_status = "Paid Off" -> {months}
          [] loan.loan_status = "Defaulted" ->
                {c \in cfg.defaulted_counts :
                    /\ (months * 3) \div 10 <= c
                    /\ c <= (months * 7) \div 10}
          [] OTHER -> {Min(IntDiv(now - loan.disbursement_date, 30) + 1, months)}

\* Mutant: for an Active loan, the last period elapsed left out.
NumLoanPaymentsOneShort(loan) ==
    LET months == Max(1, IntDiv(loan.maturity_date - loan.disbursement_date, 30))
    IN  CASE loan.loan_status = "Paid Off" -> {months}
          [] loan.loan_status = "Defaulted" ->
                {c \in cfg.defaulted_counts :
                    /\ (months * 3) \div 10 <= c
                    /\ c <= (months * 7) \div 10}
          [] OTHER -> {Max(0, Min(IntDiv(now - loan.disbursement_date, 30), months) - 1)}

\* The values num_loan_payments can take for the loan.
NumLoanPayments(loan) ==
    LET months == Months(loan)
    IN  CASE loan.loan_status = "Paid Off" -> {months}
          [] loan.loan_status = "Defaulted" ->
                {c \in cfg.defaulted_counts :
                    /\ DefaultedCountRange(months)[1] <= c
                    /\ c <= DefaultedCountRange(months)[2]}
          [] OTHER -> {Min(IntDiv(now - loan.disbursement_date, 30), months)}

\* Mutant: the first payment dated on the disbursement date.
PaymentDateFromZero(disbursement_date, payment_num) ==
    disbursement_date + 30 * payment_num

\* Mutant: the payment dated at the start of its period, not at its end.
PaymentDateAtPeriodStart(disbursement_date, payment_num) ==
    disbursement_date + 30 * (payment_num + 1) - 30

\* payment_date = disbursement_date + timedelta(days=30 * (payment_num + 1))
PaymentDate(disbursement_date, payment_num) ==
    disbursement_date + 30 * (payment_num + 1)

\* profit_portion = remaining * (profit_rate / 12)
ProfitPortion(remaining, profit_rate) == MulDiv(remaining, profit_rate, 120000)

\* Mutant: a Missed payment still takes the scheduled principal off the
\* balance.
ActualPaymentMissedAmortizes(status, factor, monthly_payment, remaining, profit_rate) ==
    LET profit_portion == ProfitPortion(remaining, profit_rate)
        principal_portion == monthly_payment - profit_portion
        late_payment == MulDiv(monthly_payment, factor, 100)
    IN  CASE status = "Missed" -> <<0, principal_portion, 0>>
          [] status = "Late" ->
                <<late_payment,
                  MulDiv(late_payment, principal_portion, monthly_payment),
                  MulDiv(late_payment, profit_portion, monthly_payment)>>
          [] OTHER -> <<monthly_payment, principal_portion, profit_portion>>

\* Mutant: a Late payment taken off the principal whole, none of it profit.
ActualPaymentLateAllPrincipal(status, factor, monthly_payment, remaining, profit_rate) ==
    LET profit_portion == ProfitPortion(remaining, profit_rate)
        principal_portion == monthly_payment - profit_portion
        late_payment == MulDiv(monthly_payment, factor, 100)
    IN  CASE status = "Missed" -> <<0, 0, 0>>
          [] status = "Late" -> <<late_payment, late_payment, 0>>
          [] OTHER -> <<monthly_payment, principal_portion, profit_portion>>

\* <<actual_payment, actual_principal, actual_profit>> for the drawn status;
\* factor is random.uniform(0.5, 0.9) in percent, read only when Late.
ActualPayment(status, factor, monthly_payment, remaining, profit_rate) ==
    LET profit_portion == ProfitPortion(remaining, profit_rate)
        principal_portion == monthly_payment - profit_portion
        late_payment == MulDiv(monthly_payment, factor, 100)
    IN  CASE status = "Missed" -> <<0, 0, 0>>
          [] status = "Late" ->
                <<late_payment,
                  MulDiv(late_payment, principal_portion, monthly_payment),
                  MulDiv(late_payment, profit_portion, monthly_payment)>>
          [] OTHER -> <<monthly_payment, principal_portion, profit_portion>>

\* Mutant: the balance not floored at zero.
RemainingUnfloored(remaining, actual_principal) == remaining - actual_principal

\* remaining = max(0, remaining - actual_principal)
Remaining(remaining, actual_principal) == Max(0, remaining - actual_principal)

\* The number of payments of all_payments that are not On Time.
Irregular(payments) ==
    Cardinality({i \in 1..Len(payments) : payments[i].payment_status # "On Time"})

\* random.choices(['On Time', 'Late', 'Missed'], ...) and, for Late, the factor.
PaymentDraws ==
    { d \in [status : cfg.payment_statuses, factor : cfg.late_factors \cup {0}] :
        /\ d.status \in PaymentStatuses
        /\ IF d.status = "Late" THEN 50 <= d.factor /\ d.factor <= 90
                                ELSE d.factor = 0
        /\ d.status # "On Time" => Irregular(rows) < cfg.max_irregular }

\* Mutant: the frame cut one row short of the target.
WritePaymentsOneShort(all_payments) ==
    /\ db' = ToSql(db, "loan_payments",
                   SubSeq(all_payments, 1,
                          Min(Len(all_payments), cfg.num_payments - 1)))
    /\ rows' = <<>>
    /\ loc' = NoLocals
    /\ pc' = NextStage(pc)

\* Mutant: the stage also brings each loan's outstanding_balance to the
\* remaining_balance of its last payment.
WritePaymentsSettlingLoans(all_payments) ==
    LET written == SubSeq(all_payments, 1, Min(Len(all_payments), cfg.num_payments))
        Last(l) == SelectSeq(written, LAMBDA p : p.loan_id = l)
        settled ==
            [l \in 1..Len(db.business_loans) |->
                IF Last(l) = <<>> THEN db.business_loans[l]
                ELSE [db.business_loans[l] EXCEPT
                         !.outstanding_balance = Last(l)[Len(Last(l))].remaining_balance]]
    IN  /\ db' = [ToSql(db, "loan_payments", written) EXCEPT !.business_loans = settled]
        /\ rows' = <<>>
        /\ loc' = NoLocals
        /\ pc' = NextStage(pc)

\* pd.DataFrame(all_payments[:num_payments]).to_sql('loan_payments', ...)
WritePayments(all_payments) ==
    /\ db' = ToSql(db, "loan_payments",
                   SubSeq(all_payments, 1, Min(Len(all_payments), cfg.num_payments)))
    /\ rows' = <<>>
    /\ loc' = NoLocals
    /\ pc' = NextStage(pc)

\* The head of the loop over loans_df for the next loan, up to the head of
\* its payment loop.  After the last loan the frame is written.
generate_loan_payments_loan ==
    /\ pc = "generate_loan_payments"
    /\ loc.at # "payment"
    /\ LET loan_id == IF loc.at = "start" THEN 1 ELSE loc.loan_id + 1
       IN  IF loan_id > Len(db.business_loans)
           THEN /\ WritePayments(rows)
                /\ UNCHANGED <<tape, rng_pos>>
           ELSE LET loan == db.business_loans[loan_id]
                    Enter(n) ==
                        /\ loc' = [ at |-> "payment",
                                    loan_id |-> loan_id,
                                    months |-> Months(loan),
                                    monthly_payment |-> MonthlyPayment(loan),
                                    num_loan_payments |-> n,
                                    remaining |-> loan.loan_amount * 1000,
                                    payment_num |-> 0 ]
                        /\ UNCHANGED <<db, rows, pc>>
                IN  IF loan.loan_status = "Defaulted"
                    THEN \E n \in Drawn("count", NumLoanPayments(loan)) :
                            Enter(n) /\ Consume("count", n)
                    ELSE \E n \in NumLoanPayments(loan) :
                            Enter(n) /\ UNCHANGED <<tape, rng_pos>>
    /\ UNCHANGED <<now, cfg, run, prev>>

\* Mutant: the loop over the loans left after the first loan, whatever the
\* count.
EndLoanAlwaysStops(all_payments) == WritePayments(all_payments)

\* Mutant: the loop over the loans steps back, so that the loan just walked
\* comes up again.
EndLoanSameLoanAgain(all_payments) ==
    IF Len(all_payments) >= cfg.num_payments
    THEN WritePayments(all_payments)
    ELSE /\ loc' = [at |-> "loan", loan_id |-> loc.loan_id - 1]
         /\ UNCHANGED <<db, rows, pc>>

\* After the payment loop of a loan: the outer loop stops when the target is
\* reached, and otherwise goes on to the next loan.
EndLoan(all_payments) ==
    IF Len(all_payments) >= cfg.num_payments
    THEN WritePayments(all_payments)
    ELSE /\ loc' = [at |-> "loan", loan_id |-> loc.loan_id]
         /\ UNCHANGED <<db, rows, pc>>

\* One pass of the payment loop of the current loan.
generate_loan_payments_payment ==
    /\ pc = "generate_loan_payments"
    /\ loc.at = "payment"
    /\ LET loan == db.business_loans[loc.loan_id]
           payment_date == PaymentDate(loan.disbursement_date, loc.payment_num)
       IN  IF loc.payment_num >= loc.num_loan_payments \/ payment_date > now
           THEN /\ EndLoan(rows)
                /\ UNCHANGED <<tape, rng_pos>>
           ELSE \E d \in Drawn("payment", PaymentDraws) :
                   LET actual == ActualPayment(d.status, d.factor, loc.monthly_payment,
                                               loc.remaining, loan.profit_rate)
                       remaining == Remaining(loc.remaining, actual[2])
                       all_payments ==
                           Append(rows,
                                  [ loan_id |-> loc.loan_id,
                                    payment_date |-> payment_date,
                                    payment_amount |-> Round2(actual[1]),
                                    principal_amount |-> Round2(actual[2]),
                                    profit_amount |-> Round2(actual[3]),
                                    remaining_balance |-> Round2(remaining),
                                    payment_status |-> d.status ])
                   IN  /\ IF Len(all_payments) >= cfg.num_payments
                          THEN WritePayments(all_payments)
                          ELSE /\ rows' = all_payments
                               /\ loc' = [loc EXCEPT !.remaining = remaining,
                                                     !.payment_num = @ + 1]
                               /\ UNCHANGED <<db, pc>>
                       /\ Consume("payment", d)
    /\ UNCHANGED <<now, cfg, run, prev>>

----------------------------------------------------------------------------
(* generate_profit_distributions *)

\* Mutant: the rows sampled with replacement.
SamplesWithReplacement(n, k) == [1..k -> 1..n]

\* purchases_df.sample(k): k distinct rows of the join, in a random order.
Samples(n, k) ==
    {q \in [1..k -> 1..n] : \A i, j \in 1..k : i # j => q[i] # q[j]}

\* quarters_since_purchase = int((now - purchase_date).days / 90)
QuartersSincePurchase(purchase_date, today) == IntDiv(today - purchase_date, 90)

\* Mutant: no horizon cap.
QuarterRangeUncapped(quarters_since_purchase) == quarters_since_purchase

\* range(min(quarters_since_purchase, 8))
QuarterRange(quarters_since_purchase) == Min(quarters_since_purchase, 8)

\* Mutant: the first window starts a quarter after the purchase.
PeriodStartNextQuarter(purchase_date, quarter) == purchase_date + 90 * (quarter + 1)

\* period_start = purchase_date + timedelta(days=90 * quarter)
PeriodStart(purchase_date, quarter) == purchase_date + 90 * quarter

\* period_end = period_start + timedelta(days=90)
PeriodEnd(period_start) == period_start + 90

\* (amount_invested * expected_return_rate / 4) * random.uniform(0.9, 1.1),
\* the factor given in percent; in mills.
QuarterlyProfit(amount_invested, expected_return_rate, factor) ==
    MulDiv(MulDiv(amount_invested, expected_return_rate, 40), factor, 100)

DistributionDraws ==
    { d \in [factor : cfg.distribution_factors, processor : FinanceIds(db)] :
        90 <= d.factor /\ d.factor <= 110 }

\* pd.DataFrame(distributions[:num_distributions]).to_sql(...)
WriteDistributions(distributions) ==
    /\ db' = ToSql(db, "profit_distributions",
                   SubSeq(distributions, 1,
                          Min(Len(distributions), cfg.num_distributions)))
    /\ rows' = <<>>
    /\ loc' = NoLocals
    /\ pc' = NextStage(pc)

\* The head of the loop over the sampled purchases, up to the head of the
\* quarter loop of the next purchase.  The sample is drawn on entry.
generate_profit_distributions_purchase ==
    /\ pc = "generate_profit_distributions"
    /\ loc.at # "quarter"
    /\ LET n == Len(db.sukuk_purchases)
           Enter(sample, k) ==
               IF k > Len(sample)
               THEN WriteDistributions(rows)
               ELSE /\ loc' = [ at |-> "quarter",
                                sample |-> sample,
                                k |-> k,
                                quarters_since_purchase |->
                                    QuartersSincePurchase(
                                        db.sukuk_purchases[sample[k]].purchase_date, now),
                                quarter |-> 0 ]
                    /\ UNCHANGED <<db, rows, pc>>
       IN  IF loc.at = "start"
           THEN \E sample \in Drawn("sample", Samples(n, Min(n, cfg.num_distributions))) :
                   Enter(sample, 1) /\ Consume("sample", sample)
           ELSE Enter(loc.sample, loc.k + 1) /\ UNCHANGED <<tape, rng_pos>>
    /\ UNCHANGED <<now, cfg, run, prev>>

\* After the quarter loop of a purchase.
EndPurchase(distributions) ==
    IF Len(distributions) >= cfg.num_distributions
    THEN WriteDistributions(distributions)
    ELSE /\ loc' = [at |-> "purchase", sample |-> loc.sample, k |-> loc.k]
         /\ UNCHANGED <<db, rows, pc>>

\* One pass of the quarter loop of the current purchase.
generate_profit_distributions_quarter ==
    /\ pc = "generate_profit_distributions"
    /\ loc.at = "quarter"
    /\ LET purchase_id == loc.sample[loc.k]
           purchase == db.sukuk_purchases[purchase_id]
           expected_return_rate ==
               db.sukuk_issuances[purchase.sukuk_id].expected_return_rate
           period_start == PeriodStart(purchase.purchase_date, loc.quarter)
           period_end == PeriodEnd(period_start)
           distribution_date == period_end
       IN  IF \/ loc.quarter >= QuarterRange(loc.quarters_since_purchase)
              \/ distribution_date > now
           THEN /\ EndPurchase(rows)
                /\ UNCHANGED <<tape, rng_pos>>
           ELSE IF FinanceIds(db) = {}
           THEN Abort /\ loc' = NoLocals
           ELSE \E d \in Drawn("distribution", DistributionDraws) :
                   LET distributions ==
                           Append(rows,
                                  [ purchase_id |-> purchase_id,
                                    distribution_date |-> distribution_date,
                                    amount |-> Round2(QuarterlyProfit(
                                        purchase.amount, expected_return_rate, d.factor)),
                                    period_start |-> period_start,
                                    period_end |-> period_end,
                                    processed_by_employee_id |-> d.processor ])
                   IN  /\ IF Len(distributions) >= cfg.num_distributions
                          THEN WriteDistributions(distributions)
                          ELSE /\ rows' = distributions
                               /\ loc' = [loc EXCEPT !.quarter = @ + 1]
                               /\ UNCHANGED <<db, pc>>
                       /\ Consume("distribution", d)
    /\ UNCHANGED <<now, cfg, run, prev>>

----------------------------------------------------------------------------
(* Runs *)

\* Row counts and aggregate sums per table, as the summary of main() and the
\* reporting queries read them.
Summary(store) ==
    [ counts |-> [t \in Tables |-> Len(store[t])],
      total_invested |->
          SumSeq([i \in 1..Len(store.investors) |-> store.investors[i].total_invested]),
      purchased |->
          SumSeq([i \in 1..Len(store.sukuk_purchases) |-> store.sukuk_purchases[i].amount]),
      lent |->
          SumSeq([i \in 1..Len(store.business_loans) |-> store.business_loans[i].loan_amount]),
      outstanding |->
          SumSeq([i \in 1..Len(store.business_loans) |->
                    store.business_loans[i].outstanding_balance]),
      paid |->
          SumSeq([i \in 1..Len(store.loan_payments) |->
                    store.loan_payments[i].payment_amount]),
      distributed |->
          SumSeq([i \in 1..Len(store.profit_distributions) |->
                    store.profit_distributions[i].amount]) ]

\* The script is started again: the module level seeds its random sources
\* with 42 again and main() runs on the store the last run left, at a date
\* that is not earlier.
main_again ==
    /\ pc \in {"done", "failed"}
    /\ run < cfg.max_runs
    /\ run' = run + 1
    /\ prev' = [finished |-> pc = "done", summary |-> Summary(db)]
    /\ \E today \in cfg.now_days : today >= now /\ now' = today
    /\ rng_pos' = 0
    /\ pc' = "create_database"
    /\ rows' = <<>>
    /\ loc' = NoLocals
    /\ UNCHANGED <<cfg, db, tape>>

NoRun == [finished |-> FALSE, summary |-> Summary(EmptyStore)]

\* What the store may hold when the script starts: nothing (no file, hence no
\* table), or the tables of an earlier run.
StaleStore ==
    [EmptyStore EXCEPT
        !.employees = << [department |-> "HR", position |-> "Recruiter"] >>,
        !.investors = << [risk_profile |-> "Moderate", total_invested |-> 0] >>]

InitWith(config) ==
    /\ cfg = config
    /\ now \in config.now_days
    /\ pc = "create_database"
    /\ db \in {EmptyStore, StaleStore}
    /\ rows = <<>>
    /\ loc = NoLocals
    /\ tape = <<>>
    /\ rng_pos = 0
    /\ run = 1
    /\ prev = NoRun

Next ==
    \/ create_database
    \/ generate_employees
    \/ generate_investors
    \/ generate_borrowers
    \/ generate_sukuk_issuances
    \/ generate_sukuk_purchases
    \/ generate_business_loans
    \/ generate_loan_payments_loan
    \/ generate_loan_payments_payment
    \/ generate_profit_distributions_purchase
    \/ generate_profit_distributions_quarter

----------------------------------------------------------------------------
(* Scenarios: the volume parameters and the sampled input ranges *)

NumLoans == 2
PaymentTarget == 3
MaxIrregular == 1
NumPurchases == 2
DistributionTarget == 9
MaxRuns == 2

\* One row per table and one value per draw; each scenario widens what it is
\* about.  Two employees are the least that can fill the three pools.
OneOfEach ==
    [ num_employees |-> 2,
      num_investors |-> 1,
      num_borrowers |-> 1,
      num_sukuk |-> 1,
      num_purchases |-> 1,
      num_loans |-> 1,
      num_payments |-> 1,
      num_distributions |-> 1,
      max_runs |-> 1,
      max_irregular |-> 1,
      now_days |-> {1800, 2500},
      employee_kinds |->
          {k \in Departments : k.position \in {"Accountant", "Loan Officer"}},
      risk_profiles |-> {"Moderate"},
      credit_scores |-> {750},
      issue_days |-> {1500},
      maturity_years |-> {2},
      return_jitters |-> {0},
      min_investments |-> {1000},
      purchase_offsets |-> {0},
      amount_multiples |-> {50},
      loan_amounts |-> {100000},
      disbursement_days |-> {0, 1765},
      loan_terms |-> {12},
      rate_jitters |-> {0},
      default_draws |-> BOOLEAN,
      default_fracs |-> {60},
      defaulted_counts |-> {3},
      payment_statuses |-> PaymentStatuses,
      late_factors |-> {70},
      distribution_factors |-> {100} ]

\* Several loans against a small payment target: every loan status, every
\* payment status, and the target reached in the middle of a loan.
SmallRun ==
    [OneOfEach EXCEPT
        !.now_days = {1800},
        !.num_loans = NumLoans,
        !.num_payments = PaymentTarget,
        !.max_irregular = PaymentTarget,
        !.loan_terms = {12, 60},
        !.defaulted_counts = {3, 42}]

\* One loan over the whole range of what generate_business_loans draws.
WideLoans ==
    [OneOfEach EXCEPT
        !.now_days = {1765, 1800, 2500, 3600},
        !.credit_scores = {649, 650, 749, 750},
        !.loan_amounts = {10000, 50000, 100000, 250000, 500000},
        !.disbursement_days = {0, 900, 1765},
        !.loan_terms = {12, 36, 60},
        !.rate_jitters = {-100, 100},
        !.default_fracs = {30, 90},
        !.payment_statuses = {"On Time"}]

\* One loan of 24 or 36 periods whose payments the target does not cut off.
LongRun ==
    [OneOfEach EXCEPT
        !.num_payments = 61,
        !.max_irregular = MaxIrregular,
        !.loan_terms = {24, 36},
        !.defaulted_counts = {6, 7, 10, 25, 26}]

\* Several purchases of different ages against a distribution target that
\* lets one purchase reach the horizon.
DistributionRun ==
    [OneOfEach EXCEPT
        !.num_purchases = NumPurchases,
        !.num_distributions = DistributionTarget,
        !.issue_days = {0, 1500},
        !.purchase_offsets = {0, 180, 365},
        !.disbursement_days = {0},
        !.default_draws = {FALSE},
        !.payment_statuses = {"On Time"}]

\* The script run again on a later day.
TwoRuns ==
    [OneOfEach EXCEPT
        !.max_runs = MaxRuns,
        !.num_payments = PaymentTarget,
        !.default_draws = {FALSE},
        !.disbursement_days = {1765}]

\* Employees of any department, two investors, and a run early enough that a
\* loan disbursed on END_DATE has no payment due yet, or only one.
AnyStaff ==
    [OneOfEach EXCEPT
        !.now_days = {1790, 1800},
        !.employee_kinds = Departments,
        !.num_investors = 2,
        !.num_purchases = NumPurchases,
        !.num_loans = NumLoans,
        !.num_payments = PaymentTarget,
        !.payment_statuses = {"On Time"}]

\* One loan the default draw spares, of 12 or 24 periods, walked to its end:
\* Paid Off when disbursed at the start of the range, and when disbursed at
\* its end either Paid Off (12 periods) or Active with 14 periods elapsed.
Amortizing ==
    [OneOfEach EXCEPT
        !.now_days = {2200},
        !.num_payments = 61,
        !.max_irregular = MaxIrregular,
        !.loan_terms = {12, 24},
        !.default_draws = {FALSE},
        !.late_factors = {50}]

\* Several loans and purchases on a day when a loan disbursed on END_DATE has
\* one payment due, with the staff every stage needs.
Walks ==
    [AnyStaff EXCEPT
        !.now_days = {1800},
        !.employee_kinds = OneOfEach.employee_kinds]

Init == InitWith(SmallRun)
Spec == Init /\ [][Next]_vars

InitLoans == InitWith(WideLoans)
SpecLoans == InitLoans /\ [][Next]_vars

InitLong == InitWith(LongRun)
SpecLong == InitLong /\ [][Next]_vars

InitDistributions == InitWith(DistributionRun)
SpecDistributions == InitDistributions /\ [][Next]_vars

InitStaff == InitWith(AnyStaff)
SpecStaff == InitStaff /\ [][Next]_vars

InitAmortizing == InitWith(Amortizing)
SpecAmortizing == InitAmortizing /\ [][Next]_vars

\* main() is one thread that runs each stage to its end: a step that can be
\* taken is taken.
InitWalks == InitWith(Walks)
SpecWalks == InitWalks /\ [][Next]_vars /\ WF_vars(Next)

InitRerun == InitWith(TwoRuns)
NextRerun == Next \/ main_again
SpecRerun == InitRerun /\ [][NextRerun]_vars

----------------------------------------------------------------------------
(* What has been generated so far: the rows in the store and, while their   *)
(* stage runs, the rows of its local list.                                  *)

Generated(stage, table) == db[table] \o (IF pc = stage THEN rows ELSE <<>>)

Loans == Generated("generate_business_loans", "business_loans")
Payments == Generated("generate_loan_payments", "loan_payments")
Distributions == Generated("generate_profit_distributions", "profit_distributions")

PaymentsOf(loan_id) == SelectSeq(Payments, LAMBDA p : p.loan_id = loan_id)
DistributionsOf(purchase_id) ==
    SelectSeq(Distributions, LAMBDA r : r.purchase_id = purchase_id)

\* The payment stage has written its rows.
PaymentsWritten == pc \in {"generate_profit_distributions", "done"}

\* The payment target was not reached, so no loan was cut off by it.
NoPaymentCutOff == Len(db.loan_payments) < cfg.num_payments

----------------------------------------------------------------------------
(* Claims *)

\* C1: a loan's outstanding_balance is 0 if and only if its loan_status is
\* 'Paid Off'.
C1_ZeroBalanceIffPaidOff ==
    \A i \in 1..Len(Loans) :
        (Loans[i].outstanding_balance = 0) <=> (Loans[i].loan_status = "Paid Off")

\* An Active loan at the very end of its term, beside which the claim's other
\* cases (a Paid Off loan, a Defaulted loan) are reached too.
C1_Witness ==
    \E i \in 1..Len(db.business_loans) :
        LET loan == db.business_loans[i]
        IN  /\ loan.loan_status = "Active"
            /\ loan.maturity_date = now
            /\ loan.outstanding_balance > 0

\* C2: a Defaulted loan's outstanding_balance is above 0 and below the
\* principal, and lies between 30% and 90% of the principal (balances in
\* cents, the principal in whole units).
C2_DefaultedBalanceInRange ==
    \A i \in 1..Len(Loans) :
        Loans[i].loan_status = "Defaulted" =>
            /\ 0 < Loans[i].outstanding_balance
            /\ Loans[i].outstanding_balance < Loans[i].loan_amount * 100
            /\ Loans[i].loan_amount * 30 <= Loans[i].outstanding_balance
            /\ Loans[i].outstanding_balance <= Loans[i].loan_amount * 90

C2_Witness ==
    \E i \in 1..Len(db.business_loans) :
        /\ db.business_loans[i].loan_status = "Defaulted"
        /\ db.business_loans[i].outstanding_balance
               = db.business_loans[i].loan_amount * 90

\* C3: the k-th payment of a loan (k = 0, 1, ...) is dated
\* disbursement_date + 30 * (k + 1) days; consecutive payments of a loan are
\* exactly 30 days apart and no period is skipped.
C3_PaymentDates ==
    \A l \in 1..Len(db.business_loans) :
        LET ps == PaymentsOf(l)
        IN  /\ \A k \in 0..(Len(ps) - 1) :
                  ps[k + 1].payment_date
                      = db.business_loans[l].disbursement_date + 30 * (k + 1)
            /\ \A j \in 1..(Len(ps) - 1) :
                  ps[j + 1].payment_date = ps[j].payment_date + 30

\* A loan with three payments, one of them Missed.
C3_Witness ==
    \E l \in 1..Len(db.business_loans) :
        /\ Len(PaymentsOf(l)) >= 3
        /\ PaymentsOf(l)[2].payment_status = "Missed"

\* C4: whatever the payment statuses drawn, the remaining_balance of a loan's
\* payments never increases from one payment to the next, starts at or below
\* the principal, and is never negative.
C4_RemainingBalanceNonIncreasing ==
    \A l \in 1..Len(db.business_loans) :
        LET ps == PaymentsOf(l)
        IN  /\ \A j \in 1..Len(ps) : ps[j].remaining_balance >= 0
            /\ Len(ps) >= 1 =>
                  ps[1].remaining_balance <= db.business_loans[l].loan_amount * 100
            /\ \A j \in 1..(Len(ps) - 1) :
                  ps[j + 1].remaining_balance <= ps[j].remaining_balance

\* A loan paid down to zero, with a Late payment on the way and a positive
\* balance before the last payment.
C4_Witness ==
    \E l \in 1..Len(db.business_loans) :
        LET ps == PaymentsOf(l)
        IN  /\ Len(ps) >= 24
            /\ ps[Len(ps)].remaining_balance = 0
            /\ ps[Len(ps) - 1].remaining_balance > 0
            /\ \E j \in 1..Len(ps) : ps[j].payment_status = "Late"

\* C5: the distributions of a purchase cover windows of exactly 90 days, the
\* first starting at the purchase date and each next one starting where the
\* one before ended, and each is dated at the end of its window.
C5_DistributionWindows ==
    \A p \in 1..Len(db.sukuk_purchases) :
        LET ds == DistributionsOf(p)
        IN  /\ \A j \in 1..Len(ds) :
                  /\ ds[j].period_end = ds[j].period_start + 90
                  /\ ds[j].distribution_date = ds[j].period_end
            /\ Len(ds) >= 1 =>
                  ds[1].period_start = db.sukuk_purchases[p].purchase_date
            /\ \A j \in 1..(Len(ds) - 1) :
                  ds[j + 1].period_start = ds[j].period_end

\* A purchase with several distributions, made after the issue date.
C5_Witness ==
    \E p \in 1..Len(db.sukuk_purchases) :
        /\ Len(DistributionsOf(p)) >= 3
        /\ db.sukuk_purchases[p].purchase_date
               > db.sukuk_issuances[db.sukuk_purchases[p].sukuk_id].issue_date

\* C6: two runs with the same seed and the same volume parameters leave the
\* same row counts and the same aggregate sums in every table.
C6_SameSeedSameDataset ==
    (run = 2 /\ pc = "done" /\ prev.finished) => Summary(db) = prev.summary

\* The period count of a loan as its dates give it.
PeriodCount(loan) == (loan.maturity_date - loan.disbursement_date) \div 30

\* C7 as claimed: a Defaulted loan that the payment target does not cut off
\* has between 30% and 70% of its period count in payments (10 to 26 for 36
\* periods).
C7_DefaultedCountAsClaimed ==
    (PaymentsWritten /\ NoPaymentCutOff) =>
        \A l \in 1..Len(db.business_loans) :
            LET loan == db.business_loans[l]
                n == Len(PaymentsOf(l))
            IN  loan.loan_status = "Defaulted" =>
                    /\ (PeriodCount(loan) * 3) \div 10 <= n
                    /\ n <= (PeriodCount(loan) * 7 + 9) \div 10
                    /\ PeriodCount(loan) = 36 => (10 <= n /\ n <= 26)

\* C7 as amended: a Defaulted loan that the payment target does not cut off
\* never has more payments than 70% of its period count (26 for 36 periods);
\* it has at least 30% of it (10 for 36 periods) unless its next payment
\* would be dated after now.
C7_DefaultedCount ==
    (PaymentsWritten /\ NoPaymentCutOff) =>
        \A l \in 1..Len(db.business_loans) :
            LET loan == db.business_loans[l]
                n == Len(PaymentsOf(l))
            IN  loan.loan_status = "Defaulted" =>
                    /\ n <= (PeriodCount(loan) * 7 + 9) \div 10
                    /\ PeriodCount(loan) = 36 => n <= 26
                    /\ \/ (PeriodCount(loan) * 3) \div 10 <= n
                       \/ loan.disbursement_date + 30 * (n + 1) > now

\* A Defaulted loan of 36 periods with the most payments it can have.
C7_Witness ==
    /\ PaymentsWritten
    /\ NoPaymentCutOff
    /\ \E l \in 1..Len(db.business_loans) :
          /\ db.business_loans[l].loan_status = "Defaulted"
          /\ PeriodCount(db.business_loans[l]) = 36
          /\ Len(PaymentsOf(l)) = 25

\* C8: a Paid Off loan that the payment target does not cut off has exactly
\* as many payments as its term has periods of 30 days, whatever the payment
\* statuses drawn; the stop on a future payment date never fires for it.
C8_PaidOffCount ==
    /\ (PaymentsWritten /\ NoPaymentCutOff) =>
          \A l \in 1..Len(db.business_loans) :
              db.business_loans[l].loan_status = "Paid Off" =>
                  Len(PaymentsOf(l)) * 30
                      = db.business_loans[l].maturity_date
                          - db.business_loans[l].disbursement_date
    /\ (pc = "generate_loan_payments" /\ loc.at = "payment") =>
          LET loan == db.business_loans[loc.loan_id]
          IN  (loan.loan_status = "Paid Off"
                  /\ loc.payment_num < loc.num_loan_payments) =>
                  loan.disbursement_date + 30 * (loc.payment_num + 1) <= now

\* A Paid Off loan of 24 periods with its 24 payments, one of them Missed.
C8_Witness ==
    /\ PaymentsWritten
    /\ NoPaymentCutOff
    /\ \E l \in 1..Len(db.business_loans) :
          /\ db.business_loans[l].loan_status = "Paid Off"
          /\ Len(PaymentsOf(l)) = 24
          /\ \E j \in 1..24 : PaymentsOf(l)[j].payment_status = "Missed"

AllOnTime(ps) == \A j \in 1..Len(ps) : ps[j].payment_status = "On Time"

\* C9: a Paid Off loan with every payment On Time and as many payments as it
\* has periods ends with a remaining_balance of 0.
C9_PaidOffEndsAtZero ==
    PaymentsWritten =>
        \A l \in 1..Len(db.business_loans) :
            LET loan == db.business_loans[l]
                ps == PaymentsOf(l)
            IN  (/\ loan.loan_status = "Paid Off"
                 /\ Len(ps) >= 1
                 /\ Len(ps) = PeriodCount(loan)
                 /\ AllOnTime(ps)) =>
                    ps[Len(ps)].remaining_balance = 0

\* The scenario: principal 100000, rate 0.08, 24 periods, all On Time.
C9_Witness ==
    /\ PaymentsWritten
    /\ \E l \in 1..Len(db.business_loans) :
          LET loan == db.business_loans[l]
              ps == PaymentsOf(l)
          IN  /\ loan.loan_status = "Paid Off"
              /\ loan.loan_amount = 100000
              /\ loan.profit_rate = 800
              /\ Len(ps) = 24
              /\ AllOnTime(ps)
              /\ ps[1].principal_amount = 416667
              /\ ps[22].remaining_balance \in 162222..162224
              /\ ps[23].remaining_balance = 0
              /\ ps[24].remaining_balance = 0

\* The purchase the distribution target may have cut off: the one of the last
\* row, when the target was reached.
CutOffPurchase ==
    IF Len(db.profit_distributions) >= cfg.num_distributions
    THEN {db.profit_distributions[Len(db.profit_distributions)].purchase_id}
    ELSE {}

\* C10: no purchase ever has more than 8 distributions, and a purchase that
\* was processed and not cut off by the distribution target has
\* min(floor(days since purchase / 90), 8) of them.
C10_DistributionCount ==
    \A p \in 1..Len(db.sukuk_purchases) :
        LET n == Len(DistributionsOf(p))
            days == now - db.sukuk_purchases[p].purchase_date
        IN  /\ n <= 8
            /\ (/\ pc = "done"
                /\ p \notin CutOffPurchase
                /\ \/ n >= 1
                   \/ /\ CutOffPurchase = {}
                      /\ Len(db.sukuk_purchases) <= cfg.num_distributions) =>
                   n = Min(days \div 90, 8)

\* A purchase more than ten quarters old, processed in full: 8 distributions.
C10_Witness ==
    /\ pc = "done"
    /\ \E p \in 1..Len(db.sukuk_purchases) :
          /\ p \notin CutOffPurchase
          /\ now - db.sukuk_purchases[p].purchase_date >= 900
          /\ Len(DistributionsOf(p)) = 8

\* The payment target was reached on the payments of loans before loan l, so
\* the loop over the loans stopped before it got to l.
ReachedBefore(l) ==
    /\ Len(db.loan_payments) >= cfg.num_payments
    /\ \A i \in 1..Len(db.loan_payments) : db.loan_payments[i].loan_id < l

C12_TargetHaltsGeneration ==
    /\ [](/\ Len(Payments) <= cfg.num_payments
          /\ pc = "generate_loan_payments" => Len(rows) < cfg.num_payments
          /\ pc = "failed" => db.business_loans = <<>>)
    /\ [][(pc = "generate_loan_payments" /\ pc' # pc) =>
            /\ pc' = "generate_profit_distributions"
            /\ IF rng_pos' = rng_pos
               THEN db'.loan_payments = rows
               ELSE /\ Len(db'.loan_payments) = cfg.num_payments
                    /\ Len(rows) = cfg.num_payments - 1
                    /\ SubSeq(db'.loan_payments, 1, Len(rows)) = rows
                    /\ db'.loan_payments[cfg.num_payments].loan_id = loc.loan_id]_vars

\* The target reached in the middle of a Paid Off loan: it is left with fewer
\* payments than it has periods.
C12_Witness ==
    /\ PaymentsWritten
    /\ Len(db.loan_payments) = cfg.num_payments
    /\ \E l \in 1..Len(db.business_loans) :
          /\ db.business_loans[l].loan_status = "Paid Off"
          /\ Len(PaymentsOf(l)) > 0
          /\ Len(PaymentsOf(l)) < PeriodCount(db.business_loans[l])

\* C13: an Active loan's outstanding_balance is the principal times
\* (1 - min(elapsed / term, 1) * 0.7) to the cent; it is not negative, not above
\* the principal and not below 30% of it; and it is no higher on any later
\* day (amounts in cents, the principal in whole units).
C13_ActiveBalance ==
    \A i \in 1..Len(Loans) :
        Loans[i].loan_status = "Active" =>
            LET loan == Loans[i]
                elapsed == now - loan.disbursement_date
                term == loan.maturity_date - loan.disbursement_date
                paid_down == MulDiv(loan.loan_amount * 70, Min(elapsed, term), term)
            IN  /\ loan.outstanding_balance >= loan.loan_amount * 100 - paid_down - 1
                /\ loan.outstanding_balance <= loan.loan_amount * 100 - paid_down + 1
                /\ loan.outstanding_balance >= 0
                /\ loan.outstanding_balance <= loan.loan_amount * 100
                /\ loan.outstanding_balance >= loan.loan_amount * 30
                /\ \A later \in cfg.now_days :
                      later >= now =>
                          Round2(ActiveBalance(loan.loan_amount,
                                               later - loan.disbursement_date, term))
                              <= loan.outstanding_balance

\* An Active loan past the middle of its term, with a later day to compare
\* with.
C13_Witness ==
    \E i \in 1..Len(db.business_loans) :
        LET loan == db.business_loans[i]
        IN  /\ loan.loan_status = "Active"
            /\ 2 * (now - loan.disbursement_date)
                   > loan.maturity_date - loan.disbursement_date
            /\ now < loan.maturity_date
            /\ loan.outstanding_balance > loan.loan_amount * 30
            /\ loan.outstanding_balance < loan.loan_amount * 65
            /\ \E later \in cfg.now_days : later > now

\* C14: a loan is Defaulted exactly when its default draw succeeded, whatever
\* its dates; a loan the draw spared is Paid Off exactly when its maturity
\* date is before now, and Active otherwise.
C14_StatusPriority ==
    LET draws == SelectSeq(tape, LAMBDA t : t[1] = "loan")
    IN  \A i \in 1..Len(Loans) :
            /\ i <= Len(draws)
            /\ Loans[i].loan_status \in {"Defaulted", "Paid Off", "Active"}
            /\ (Loans[i].loan_status = "Defaulted") <=> draws[i][2].default
            /\ ~draws[i][2].default =>
                  /\ (Loans[i].loan_status = "Paid Off") <=> (Loans[i].maturity_date < now)
                  /\ (Loans[i].loan_status = "Active") <=> (Loans[i].maturity_date >= now)

\* A Defaulted loan and, in other runs, an Active loan that matures today: the
\* state here is the Defaulted loan whose maturity date has passed.
C14_Witness ==
    \E i \in 1..Len(db.business_loans) :
        /\ db.business_loans[i].loan_status = "Defaulted"
        /\ db.business_loans[i].maturity_date < now

\* The credit tier of a score: 3 for 750 and above, 2 for 650 to 749, 1 below.
CreditTier(credit_score) ==
    IF credit_score >= 750 THEN 3 ELSE IF credit_score >= 650 THEN 2 ELSE 1

\* C15 as claimed: the ranges of the three tiers are pairwise disjoint, so
\* the principal of a loan lies in the range of no tier but its borrower's.
C15_PrincipalDeterminesTier ==
    \A i \in 1..Len(Loans) :
        \A score \in {649, 650, 750} :
            LET range == LoanAmountRange(score)
                own == db.borrowers[Loans[i].borrower_id].credit_score
            IN  (range[1] <= Loans[i].loan_amount /\ Loans[i].loan_amount <= range[2])
                    => CreditTier(score) = CreditTier(own)

\* C15: the principal lies in the range of the borrower's tier, 100000 to
\* 500000 for a score of 750 and above, 50000 to 250000 for 650 to 749, 10000
\* to 100000 below 650; a higher tier has a higher floor and a higher ceiling
\* but the ranges overlap, so the principal only bounds the tier: above
\* 250000 the score is 750 or more, above 100000 it is 650 or more, below
\* 100000 it is under 750, below 50000 it is under 650.
C15_PrincipalBoundsTier ==
    \A i \in 1..Len(Loans) :
        LET amount == Loans[i].loan_amount
            score == db.borrowers[Loans[i].borrower_id].credit_score
        IN  /\ score >= 750 => (100000 <= amount /\ amount <= 500000)
            /\ (650 <= score /\ score < 750) => (50000 <= amount /\ amount <= 250000)
            /\ score < 650 => (10000 <= amount /\ amount <= 100000)
            /\ amount > 250000 => score >= 750
            /\ amount > 100000 => score >= 650
            /\ amount < 100000 => score < 750
            /\ amount < 50000 => score < 650

\* A principal of 100000, which all three ranges hold, lent to a borrower of
\* the lowest tier.
C15_Witness ==
    \E i \in 1..Len(db.business_loans) :
        /\ db.business_loans[i].loan_amount = 100000
        /\ db.borrowers[db.business_loans[i].borrower_id].credit_score < 650

\* The stages before the given one, in the order of main().
StagesBefore(stage) ==
    CASE stage = "generate_sukuk_issuances" ->
            {"generate_investors", "generate_borrowers"}
      [] stage = "generate_sukuk_purchases" ->
            {"generate_investors", "generate_borrowers", "generate_sukuk_issuances"}
      [] stage = "generate_business_loans" ->
            {"generate_investors", "generate_borrowers", "generate_sukuk_issuances",
             "generate_sukuk_purchases"}

\* The stage that needs the pool has not got past its first pass: the run is
\* before it, at its head with nothing generated, or has failed; and none of
\* the given tables has a row.
StoppedAt(stage, tables) ==
    /\ pc \in StagesBefore(stage) \cup {stage, "failed"}
    /\ pc = stage => rows = <<>>
    /\ \A t \in tables : db[t] = <<>>

\* C16: once the employees are written, a stage whose pool of eligible
\* employees is empty generates no row, neither in its list nor in its table,
\* and no later stage runs or writes; and the run fails only for an empty
\* pool, leaving no local list behind.
C16_EmptyPoolFailsFast ==
    /\ (pc \notin {"create_database", "generate_employees"}) =>
          /\ FinanceIds(db) = {} =>
                StoppedAt("generate_sukuk_issuances",
                          {"sukuk_issuances", "sukuk_purchases", "business_loans",
                           "loan_payments", "profit_distributions"})
          /\ ProcessorIds(db) = {} =>
                StoppedAt("generate_sukuk_purchases",
                          {"sukuk_purchases", "business_loans", "loan_payments",
                           "profit_distributions"})
          /\ ApproverIds(db) = {} =>
                StoppedAt("generate_business_loans",
                          {"business_loans", "loan_payments", "profit_distributions"})
    /\ pc = "failed" =>
          /\ rows = <<>>
          /\ FinanceIds(db) = {} \/ ProcessorIds(db) = {} \/ ApproverIds(db) = {}

\* The run failed in generate_business_loans: the purchases are written,
\* there is no Risk Management employee and no Loan Officer, and no loan.
C16_Witness ==
    /\ pc = "failed"
    /\ ApproverIds(db) = {}
    /\ Len(db.sukuk_purchases) = cfg.num_purchases
    /\ db.business_loans = <<>>

\* s is the beginning of t.
IsPrefix(s, t) == Len(s) <= Len(t) /\ SubSeq(t, 1, Len(s)) = s

\* C17: in every step after the tables are created, each table keeps the rows
\* it has, unchanged and in place, and at most gains rows; the one exception
\* is the investors table in the purchase stage, where only total_invested may
\* change.  The loan, payment and distribution stages leave employees,
\* investors, borrowers, sukuk_issuances and sukuk_purchases as they are, and
\* the payment stage leaves business_loans as it is.
C17_InsertOnly ==
    [][pc # "create_database" =>
          /\ \A t \in Tables \ {"investors"} : IsPrefix(db[t], db'[t])
          /\ IF pc = "generate_sukuk_purchases"
             THEN /\ Len(db'.investors) = Len(db.investors)
                  /\ \A i \in 1..Len(db.investors) :
                        [db'.investors[i] EXCEPT
                            !.total_invested = db.investors[i].total_invested]
                          = db.investors[i]
             ELSE IsPrefix(db.investors, db'.investors)
          /\ pc \in {"generate_business_loans", "generate_loan_payments",
                     "generate_profit_distributions"} =>
                \A t \in {"employees", "investors", "borrowers",
                          "sukuk_issuances", "sukuk_purchases"} : db'[t] = db[t]
          /\ pc = "generate_loan_payments" =>
                db'.business_loans = db.business_loans]_vars

\* The payments are written beside loans with a balance and an investor whose
\* total_invested the purchase stage has set.
C17_Witness ==
    /\ PaymentsWritten
    /\ Len(db.loan_payments) > 0
    /\ \E i \in 1..Len(db.investors) : db.investors[i].total_invested > 0
    /\ \E l \in 1..Len(db.business_loans) :
          /\ db.business_loans[l].outstanding_balance > 0
          /\ PaymentsOf(l) # <<>>

\* The sum of the amounts of the purchases with the given ids.
RECURSIVE AmountOf(_)
AmountOf(ids) ==
    IF ids = {} THEN 0
    ELSE LET p == CHOOSE q \in ids : TRUE
         IN  db.sukuk_purchases[p].amount + AmountOf(ids \ {p})

\* The purchases in the store that reference the investor.
PurchasesBy(inv) ==
    {p \in 1..Len(db.sukuk_purchases) : db.sukuk_purchases[p].investor_id = inv}

\* C18: up to the end of generate_sukuk_purchases every investor generated has
\* a total_invested of 0; from then on, in every state of the run, each
\* investor's total_invested is the sum of the amounts of the purchases that
\* reference the investor, 0 when there is none.
C18_TotalInvested ==
    LET investors == Generated("generate_investors", "investors")
    IN  \A inv \in 1..Len(investors) :
            IF pc \in {"create_database", "generate_employees", "generate_investors",
                       "generate_borrowers", "generate_sukuk_issuances",
                       "generate_sukuk_purchases"}
            THEN investors[inv].total_invested = 0
            ELSE investors[inv].total_invested = AmountOf(PurchasesBy(inv))

\* At the end of the run, one investor with two purchases and another with
\* none.
C18_Witness ==
    /\ pc = "done"
    /\ \E a, b \in 1..Len(db.investors) :
          /\ Cardinality(PurchasesBy(a)) = 2
          /\ db.investors[a].total_invested > 0
          /\ PurchasesBy(b) = {}
          /\ db.investors[b].total_invested = 0

\* The keys of the rows the table holds in the store.
Ids(table) == 1..Len(db[table])

\* C19: in every state, every reference of a generated row, written or still
\* in the local list of its stage, is the key of a row already in the store;
\* each loan's approver is an employee of the Risk Management department or
\* a Loan Officer; and a stage runs only once the tables it reads hold all
\* their rows.
C19_ReferentialIntegrity ==
    /\ \A r \in {Generated("generate_sukuk_issuances", "sukuk_issuances")[i] :
                   i \in 1..Len(Generated("generate_sukuk_issuances", "sukuk_issuances"))} :
          r.issued_by_employee_id \in Ids("employees")
    /\ \A r \in {Generated("generate_sukuk_purchases", "sukuk_purchases")[i] :
                   i \in 1..Len(Generated("generate_sukuk_purchases", "sukuk_purchases"))} :
          /\ r.investor_id \in Ids("investors")
          /\ r.sukuk_id \in Ids("sukuk_issuances")
          /\ r.processed_by_employee_id \in Ids("employees")
    /\ \A i \in 1..Len(Loans) :
          /\ Loans[i].borrower_id \in Ids("borrowers")
          /\ Loans[i].approved_by_employee_id \in Ids("employees")
          /\ \/ db.employees[Loans[i].approved_by_employee_id].department
                    = "Risk Management"
             \/ db.employees[Loans[i].approved_by_employee_id].position
                    = "Loan Officer"
    /\ \A i \in 1..Len(Payments) : Payments[i].loan_id \in Ids("business_loans")
    /\ \A i \in 1..Len(Distributions) :
          /\ Distributions[i].purchase_id \in Ids("sukuk_purchases")
          /\ Distributions[i].processed_by_employee_id \in Ids("employees")
    /\ pc = "generate_sukuk_issuances" => Len(db.employees) = cfg.num_employees
    /\ pc = "generate_sukuk_purchases" =>
          /\ Len(db.investors) = cfg.num_investors
          /\ Len(db.sukuk_issuances) = cfg.num_sukuk
          /\ Len(db.employees) = cfg.num_employees
    /\ pc = "generate_business_loans" =>
          /\ Len(db.borrowers) = cfg.num_borrowers
          /\ Len(db.employees) = cfg.num_employees
    /\ pc = "generate_loan_payments" => Len(db.business_loans) = cfg.num_loans
    /\ pc = "generate_profit_distributions" =>
          /\ Len(db.sukuk_purchases) = cfg.num_purchases
          /\ Len(db.sukuk_issuances) = cfg.num_sukuk
          /\ Len(db.employees) = cfg.num_employees

\* A finished run with rows in every table, beside an employee who is not in
\* the pool of approvers.
C19_Witness ==
    /\ pc = "done"
    /\ \A t \in Tables : db[t] # <<>>
    /\ \E e \in Ids("employees") : e \notin ApproverIds(db)

\* generate_loan_payments called on a store whose loans run for less than
\* two periods, among them loans that mature on their disbursement date.
ShortTerms ==
    [OneOfEach EXCEPT
        !.now_days = {1765, 1800},
        !.num_loans = NumLoans,
        !.num_payments = PaymentTarget,
        !.disbursement_days = {1700, 1765},
        !.defaulted_counts = {0}]

\* The lengths, in days, of the terms of these loans.
ShortTermDays == {0, 15, 30, 45}

\* A row of business_loans for a term given in days, its status and balance
\* decided as generate_business_loans decides them.
ShortLoan(disbursement_date, term_days, default, today) ==
    LET maturity_date == disbursement_date + term_days
        loan_status == LoanStatus(default, maturity_date, today)
    IN  [ borrower_id |-> 1,
          loan_amount |-> 100000,
          disbursement_date |-> disbursement_date,
          maturity_date |-> maturity_date,
          profit_rate |-> BaseProfitRate(750),
          loan_status |-> loan_status,
          approved_by_employee_id |-> 2,
          outstanding_balance |->
              Round2(OutstandingBalance(loan_status, 100000, 60,
                                        disbursement_date, maturity_date, today)) ]

InitShortTerms ==
    /\ cfg = ShortTerms
    /\ now \in ShortTerms.now_days
    /\ pc = "generate_loan_payments"
    /\ \E loans \in [1..ShortTerms.num_loans ->
                        { ShortLoan(d, t, f, now) :
                            d \in ShortTerms.disbursement_days,
                            t \in ShortTermDays,
                            f \in ShortTerms.default_draws }] :
          db = [EmptyStore EXCEPT
                   !.employees =
                       << [department |-> "Finance", position |-> "Accountant"],
                          [department |-> "Operations", position |-> "Loan Officer"] >>,
                   !.borrowers = << [credit_score |-> 750] >>,
                   !.business_loans = loans]
    /\ rows = <<>>
    /\ loc = NoLocals
    /\ tape = <<>>
    /\ rng_pos = 0
    /\ run = 1
    /\ prev = NoRun

NextPayments == generate_loan_payments_loan \/ generate_loan_payments_payment
SpecShortTerms == InitShortTerms /\ [][NextPayments]_vars

\* C20: the period count generate_loan_payments divides by is never below 1;
\* for a loan whose maturity date is less than 30 days after its disbursement
\* date it is 1, and the installment is then the whole amount to pay, the
\* principal plus one month of profit (in mills); an Active loan whose
\* maturity date is its disbursement date has the full principal as its
\* outstanding_balance.
C20_ZeroTermGuarded ==
    /\ loc.at = "payment" =>
          LET loan == db.business_loans[loc.loan_id]
          IN  /\ loc.months >= 1
              /\ loan.maturity_date - loan.disbursement_date < 30 =>
                    /\ loc.months = 1
                    /\ loc.monthly_payment
                          = loan.loan_amount * 1000
                              + MulDiv(loan.loan_amount, loan.profit_rate, 120)
    /\ \A i \in 1..Len(db.business_loans) :
          LET loan == db.business_loans[i]
          IN  (loan.loan_status = "Active"
                 /\ loan.maturity_date = loan.disbursement_date) =>
                  loan.outstanding_balance = loan.loan_amount * 100

\* The payment loop entered for an Active loan disbursed today that matures
\* today, and a payment written for a loan of a term of zero days.
C20_Witness ==
    /\ loc.at = "payment"
    /\ LET loan == db.business_loans[loc.loan_id]
       IN  /\ loan.maturity_date = loan.disbursement_date
           /\ loan.loan_status = "Active"
           /\ loan.outstanding_balance = loan.loan_amount * 100
           /\ loc.months = 1
    /\ \E j \in 1..Len(rows) :
          /\ db.business_loans[rows[j].loan_id].maturity_date
                = db.business_loans[rows[j].loan_id].disbursement_date
          /\ rows[j].payment_amount > 0

\* The balance a payment of a loan starts from, in cents: the principal for
\* the first payment, the remaining_balance of the payment before otherwise.
BalanceBefore(l, j) ==
    IF j = 1 THEN db.business_loans[l].loan_amount * 100
    ELSE PaymentsOf(l)[j - 1].remaining_balance

\* C22: to the cent (the fields are stored rounded to two decimals), each
\* payment's remaining_balance is the balance before it minus the payment's
\* principal_amount, floored at zero; a Missed payment leaves the balance as
\* it was; and the balance goes down only on a payment that is not Missed and
\* has a positive principal_amount.
C22_RunningBalance ==
    \A l \in 1..Len(db.business_loans) :
        LET ps == PaymentsOf(l)
        IN  \A j \in 1..Len(ps) :
                LET before == BalanceBefore(l, j)
                    expected == Max(0, before - ps[j].principal_amount)
                IN  /\ ps[j].remaining_balance >= expected - 1
                    /\ ps[j].remaining_balance <= expected + 1
                    /\ ps[j].payment_status = "Missed" =>
                          ps[j].remaining_balance = before
                    /\ ps[j].remaining_balance < before =>
                          /\ ps[j].payment_status # "Missed"
                          /\ ps[j].principal_amount > 0

\* A loan with a Missed payment between two payments that bring the balance
\* down, and with the floor reached: a last principal_amount above the
\* balance it met.
C22_Witness ==
    \E l \in 1..Len(db.business_loans) :
        LET ps == PaymentsOf(l)
        IN  /\ Len(ps) >= 24
            /\ \E j \in 2..(Len(ps) - 1) :
                  /\ ps[j].payment_status = "Missed"
                  /\ ps[j].remaining_balance = ps[j - 1].remaining_balance
                  /\ ps[j + 1].remaining_balance < ps[j].remaining_balance
            /\ \E j \in 2..Len(ps) :
                  /\ ps[j].remaining_balance = 0
                  /\ ps[j - 1].remaining_balance > 0
                  /\ ps[j].principal_amount > ps[j - 1].remaining_balance + 1

\* The absolute difference of two amounts is at most one unit.
Within1(a, b) == a - b <= 1 /\ b - a <= 1

\* C23: to the cent (the fields are stored rounded), principal_amount plus
\* profit_amount is payment_amount and neither is negative.  On Time pays the
\* installment, its profit_amount the balance before the payment times
\* profit_rate / 12 and its principal_amount the rest; Late pays between 50%
\* and 90% of the installment and splits it as the installment is split;
\* Missed has all three at zero.  (Amounts in cents, the installment and the
\* portions due in mills, the rate in 1/10000.)
C23_PaymentSplit ==
    \A l \in 1..Len(db.business_loans) :
        LET loan == db.business_loans[l]
            ps == PaymentsOf(l)
            installment == MonthlyPayment(loan)
        IN  \A j \in 1..Len(ps) :
                LET p == ps[j]
                    due_profit ==
                        MulDiv(BalanceBefore(l, j) * 10, loan.profit_rate, 120000)
                    due_principal == installment - due_profit
                IN  /\ Within1(p.principal_amount + p.profit_amount, p.payment_amount)
                    /\ p.principal_amount >= 0
                    /\ p.profit_amount >= 0
                    /\ p.payment_status = "On Time" =>
                          /\ p.payment_amount = Round2(installment)
                          /\ Within1(p.profit_amount, Round2(due_profit))
                          /\ Within1(p.principal_amount, Round2(due_principal))
                    /\ p.payment_status = "Late" =>
                          /\ p.payment_amount * 10 >= (installment \div 2) - 5
                          /\ p.payment_amount * 10 <= MulDiv(installment, 9, 10) + 5
                          /\ Within1(p.profit_amount,
                                     Round2(MulDiv(p.payment_amount * 10, due_profit,
                                                   installment)))
                          /\ Within1(p.principal_amount,
                                     Round2(MulDiv(p.payment_amount * 10, due_principal,
                                                   installment)))
                    /\ p.payment_status = "Missed" =>
                          /\ p.payment_amount = 0
                          /\ p.principal_amount = 0
                          /\ p.profit_amount = 0

\* A loan with a Late payment of half the installment and, in other runs, of
\* nine tenths of it or a Missed one; here the half, after an On Time payment.
C23_Witness ==
    \E l \in 1..Len(db.business_loans) :
        LET ps == PaymentsOf(l)
        IN  \E j \in 2..Len(ps) :
                /\ ps[j - 1].payment_status = "On Time"
                /\ ps[j].payment_status = "Late"
                /\ Within1(2 * ps[j].payment_amount, ps[j - 1].payment_amount)
                /\ ps[j].principal_amount > 0
                /\ ps[j].profit_amount > 0

\* C29: for every loan, the principal_amount of its payments adds up to no
\* more than the loan_amount (in cents), whatever the payment statuses drawn.
C29_PrincipalRepaidWithinLoan ==
    \A l \in 1..Len(db.business_loans) :
        LET ps == PaymentsOf(l)
        IN  SumSeq([j \in 1..Len(ps) |-> ps[j].principal_amount])
                <= db.business_loans[l].loan_amount * 100

\* C24: an Active loan that the payment target does not cut off has
\* min(floor(days since disbursement / 30), period count) payments, and while
\* its payment loop has passes left the date of the next payment is never
\* after now, so the early stop does not fire.
C24_ActiveCount ==
    /\ (PaymentsWritten /\ NoPaymentCutOff) =>
          \A l \in 1..Len(db.business_loans) :
              LET loan == db.business_loans[l]
              IN  loan.loan_status = "Active" =>
                      Len(PaymentsOf(l))
                          = Min((now - loan.disbursement_date) \div 30, PeriodCount(loan))
    /\ (pc = "generate_loan_payments" /\ loc.at = "payment") =>
          LET loan == db.business_loans[loc.loan_id]
          IN  (loan.loan_status = "Active"
                 /\ loc.payment_num < loc.num_loan_payments) =>
                  loan.disbursement_date + 30 * (loc.payment_num + 1) <= now

\* An Active loan of 24 periods, 435 days after its disbursement: 14 payments.
C24_Witness ==
    /\ PaymentsWritten
    /\ NoPaymentCutOff
    /\ \E l \in 1..Len(db.business_loans) :
          /\ db.business_loans[l].loan_status = "Active"
          /\ PeriodCount(db.business_loans[l]) = 24
          /\ now - db.business_loans[l].disbursement_date = 435
          /\ Len(PaymentsOf(l)) = 14

\* The payments a loan's status asks for are all there: one per period for
\* Paid Off, one per period elapsed for Active, and for Defaulted a number
\* within the bounds of the draw, or fewer when the next date is after now.
Complete(l) ==
    LET loan == db.business_loans[l]
        n == Len(PaymentsOf(l))
        m == PeriodCount(loan)
    IN  CASE loan.loan_status = "Paid Off" -> n = m
          [] loan.loan_status = "Active" ->
                n = Min((now - loan.disbursement_date) \div 30, m)
          [] OTHER ->
                /\ n <= (7 * m) \div 10
                /\ \/ n >= (3 * m) \div 10
                   \/ loan.disbursement_date + 30 * (n + 1) > now

\* C30: the payments are written in the order of the loans; and when the
\* target is reached while loan L is processed, every loan before L has all
\* the payments its status asks for and every loan after L has none, so that
\* L alone can be cut short.
C30_OnlyOneLoanCutShort ==
    /\ \A i, j \in 1..Len(Payments) :
          i < j => Payments[i].loan_id <= Payments[j].loan_id
    /\ (PaymentsWritten /\ Len(db.loan_payments) >= cfg.num_payments) =>
          LET L == db.loan_payments[Len(db.loan_payments)].loan_id
          IN  \A l \in 1..Len(db.business_loans) :
                  /\ l < L => Complete(l)
                  /\ l > L => PaymentsOf(l) = <<>>

\* The target reached in the second loan, which is cut short, after a first
\* loan that has its payments.
C30_Witness ==
    /\ PaymentsWritten
    /\ Len(db.loan_payments) >= cfg.num_payments
    /\ db.loan_payments[Len(db.loan_payments)].loan_id = 2
    /\ PaymentsOf(1) # <<>>
    /\ Complete(1)
    /\ ~Complete(2)

\* The values of the given kind drawn so far in the run in progress.
DrawsOf(kind) ==
    LET drawn == SelectSeq(SubSeq(tape, 1, rng_pos), LAMBDA t : t[1] = kind)
    IN  [i \in 1..Len(drawn) |-> drawn[i][2]]

\* C21: the first step of every run leaves all eight tables empty, whatever the
\* store held; and at the end of a successful run each table holds exactly
\* what the run generated: the employees are the ones this run drew, and
\* every other table has one row per row this run drew, as many as asked for.
C21_FreshTables ==
    /\ [][pc = "create_database" => \A t \in Tables : db'[t] = <<>>]_vars
    /\ [](pc = "done" =>
            /\ db.employees = DrawsOf("employee")
            /\ Len(db.employees) = cfg.num_employees
            /\ Len(db.investors) = Len(DrawsOf("investor"))
            /\ Len(db.investors) = cfg.num_investors
            /\ Len(db.borrowers) = Len(DrawsOf("borrower"))
            /\ Len(db.borrowers) = cfg.num_borrowers
            /\ Len(db.sukuk_issuances) = Len(DrawsOf("sukuk"))
            /\ Len(db.sukuk_issuances) = cfg.num_sukuk
            /\ Len(db.sukuk_purchases) = Len(DrawsOf("purchase"))
            /\ Len(db.sukuk_purchases) = cfg.num_purchases
            /\ Len(db.business_loans) = Len(DrawsOf("loan"))
            /\ Len(db.business_loans) = cfg.num_loans
            /\ Len(db.loan_payments) = Len(DrawsOf("payment"))
            /\ Len(db.profit_distributions) = Len(DrawsOf("distribution")))

\* The second run has finished on the store the first run had filled.
C21_Witness ==
    /\ run = 2
    /\ pc = "done"
    /\ prev.finished
    /\ prev.summary.counts.employees = cfg.num_employees
    /\ prev.summary.counts.loan_payments > 0
    /\ Len(db.employees) = cfg.num_employees

\* C25: no payment is dated after now, and no distribution has a period_end,
\* which is its distribution_date, after now; and a pass of the payment loop
\* or of the quarter loop whose date would be after now emits no record
\* and ends the walk of its loan or purchase.
C25_NothingDatedAfterNow ==
    /\ [](/\ \A i \in 1..Len(Payments) : Payments[i].payment_date <= now
          /\ \A i \in 1..Len(Distributions) :
                /\ Distributions[i].period_end <= now
                /\ Distributions[i].distribution_date = Distributions[i].period_end)
    /\ [][(/\ pc = "generate_loan_payments"
           /\ loc.at = "payment"
           /\ db.business_loans[loc.loan_id].disbursement_date
                  + 30 * (loc.payment_num + 1) > now) =>
              /\ Len(Payments') = Len(Payments)
              /\ ~(pc' = pc /\ loc'.at = "payment")]_vars
    /\ [][(/\ pc = "generate_profit_distributions"
           /\ loc.at = "quarter"
           /\ db.sukuk_purchases[loc.sample[loc.k]].purchase_date
                  + 90 * (loc.quarter + 1) > now) =>
              /\ Len(Distributions') = Len(Distributions)
              /\ ~(pc' = pc /\ loc'.at = "quarter")]_vars

\* A Defaulted loan with one payment made and passes left, at the head of a
\* pass whose date is after now.
C25_Witness ==
    /\ pc = "generate_loan_payments"
    /\ loc.at = "payment"
    /\ loc.payment_num = 1
    /\ loc.payment_num < loc.num_loan_payments
    /\ db.business_loans[loc.loan_id].disbursement_date
           + 30 * (loc.payment_num + 1) > now
    /\ PaymentsOf(loc.loan_id)[1].payment_date <= now

\* C26: the purchases sampled are distinct and as many as the smaller of the
\* number of purchases and num_distributions; no purchase is walked twice, so
\* no two distributions share a purchase and a period and the rows of a
\* purchase are adjacent; the number of distributions emitted never exceeds
\* num_distributions, the quarter loop never goes on with a full list, and the
\* run does not fail once the purchases are written.
C26_DistributionTarget ==
    /\ Len(Distributions) <= cfg.num_distributions
    /\ pc = "generate_profit_distributions" =>
          /\ Len(rows) < cfg.num_distributions
          /\ loc.at # "start" =>
                /\ Len(loc.sample)
                      = Min(Len(db.sukuk_purchases), cfg.num_distributions)
                /\ \A i, j \in 1..Len(loc.sample) :
                      i # j => loc.sample[i] # loc.sample[j]
    /\ \A i, j \in 1..Len(Distributions) :
          i < j =>
              /\ ~(/\ Distributions[i].purchase_id = Distributions[j].purchase_id
                   /\ Distributions[i].period_start = Distributions[j].period_start)
              /\ Distributions[i].purchase_id = Distributions[j].purchase_id =>
                    \A k \in i..j :
                        Distributions[k].purchase_id = Distributions[i].purchase_id
    /\ pc = "failed" => db.sukuk_purchases = <<>>

\* The run has finished with the target reached in the middle of the second
\* purchase sampled: the first has its 8 distributions, the second only one,
\* although more than two quarters have passed since it.
C26_Witness ==
    /\ pc = "done"
    /\ Len(db.profit_distributions) = cfg.num_distributions
    /\ \E p, q \in 1..Len(db.sukuk_purchases) :
          /\ p # q
          /\ Len(DistributionsOf(p)) = 8
          /\ Len(DistributionsOf(q)) = 1
          /\ now - db.sukuk_purchases[q].purchase_date >= 180

\* C27: every purchase is dated on or after the issue date of the instrument
\* it references, and not after now.
C27_PurchaseAfterIssue ==
    LET purchases == Generated("generate_sukuk_purchases", "sukuk_purchases")
    IN  \A i \in 1..Len(purchases) :
            /\ purchases[i].sukuk_id \in 1..Len(db.sukuk_issuances)
            /\ purchases[i].purchase_date
                  >= db.sukuk_issuances[purchases[i].sukuk_id].issue_date
            /\ purchases[i].purchase_date <= now

\* A purchase made a year after the issue and another on the issue date.
C27_Witness ==
    \E i, j \in 1..Len(db.sukuk_purchases) :
        /\ db.sukuk_purchases[i].purchase_date
              = db.sukuk_issuances[db.sukuk_purchases[i].sukuk_id].issue_date + 365
        /\ db.sukuk_purchases[j].purchase_date
              = db.sukuk_issuances[db.sukuk_purchases[j].sukuk_id].issue_date

\* C28: within the payment stage a step of a loan's walk goes from period
\* index n to n + 1 with one payment emitted, a walk starts at index 0 on the
\* loan after the one before, and a walk ends, with nothing emitted by that
\* step, only when the count of the loan is reached or the next date is after
\* now; the stage ends only then or on reaching the target.  The same holds
\* of the quarter walk of the distribution stage.  Each of the two stages
\* ends, and outside it its table does not change.
C28_WalksForwardAndEnd ==
    /\ [][(pc = "generate_loan_payments" /\ loc.at = "payment") =>
            LET loan == db.business_loans[loc.loan_id]
                over == \/ loc.payment_num >= loc.num_loan_payments
                        \/ loan.disbursement_date + 30 * (loc.payment_num + 1) > now
            IN  IF pc' = pc /\ loc'.at = "payment"
                THEN /\ loc'.loan_id = loc.loan_id
                     /\ loc'.payment_num = loc.payment_num + 1
                     /\ Len(rows') = Len(rows) + 1
                     /\ ~over
                ELSE IF pc' = pc
                THEN /\ loc'.loan_id = loc.loan_id
                     /\ rows' = rows
                     /\ over
                ELSE over \/ Len(db'.loan_payments) >= cfg.num_payments]_vars
    /\ [][(pc = "generate_loan_payments" /\ loc.at # "payment" /\ pc' = pc) =>
            /\ loc'.at = "payment"
            /\ loc'.payment_num = 0
            /\ loc'.loan_id = (IF loc.at = "start" THEN 1 ELSE loc.loan_id + 1)]_vars
    /\ [][(pc = "generate_profit_distributions" /\ loc.at = "quarter") =>
            LET purchase == db.sukuk_purchases[loc.sample[loc.k]]
                over == \/ loc.quarter >= Min(loc.quarters_since_purchase, 8)
                        \/ purchase.purchase_date + 90 * (loc.quarter + 1) > now
            IN  IF pc' = pc /\ loc'.at = "quarter"
                THEN /\ loc'.k = loc.k
                     /\ loc'.quarter = loc.quarter + 1
                     /\ Len(rows') = Len(rows) + 1
                     /\ ~over
                ELSE IF pc' = pc
                THEN /\ loc'.k = loc.k
                     /\ rows' = rows
                     /\ over
                ELSE over \/ Len(db'.profit_distributions) >= cfg.num_distributions]_vars
    /\ [][(pc = "generate_profit_distributions" /\ loc.at # "quarter" /\ pc' = pc) =>
            /\ loc'.at = "quarter"
            /\ loc'.quarter = 0
            /\ loc'.k = (IF loc.at = "start" THEN 1 ELSE loc.k + 1)]_vars
    /\ [][pc \notin {"create_database", "generate_loan_payments"} =>
            db'.loan_payments = db.loan_payments]_vars
    /\ [][pc \notin {"create_database", "generate_profit_distributions"} =>
            db'.profit_distributions = db.profit_distributions]_vars
    /\ (pc = "generate_loan_payments") ~> (pc = "generate_profit_distributions")
    /\ (pc = "generate_profit_distributions") ~> (pc = "done")

\* The run has finished after a walk of two steps or more in the payment
\* stage and a walk in the distribution stage.
C28_Witness ==
    /\ pc = "done"
    /\ \E l \in 1..Len(db.business_loans) : Len(PaymentsOf(l)) >= 2
    /\ Len(db.profit_distributions) >= 1

====
